---- MODULE Spec2Model ----
(***************************************************************************)
(* Model of the team endpoints of the Slack Web API client (src/team.rs):  *)
(* access_logs and info, the parameter mapping they build, the transport   *)
(* they call, the envelope decoder they forward the response to, and the   *)
(* decoders derived for their response structures.                         *)
(***************************************************************************)
EXTENDS Integers, Sequences, FiniteSets, TLC

(***************************************************************************)
(* Bounds of the model.                                                    *)
(***************************************************************************)
\* longest "logins" array among the sampled success bodies
MaxLogins == 2

\* the callers (threads) that may use the same client concurrently
Callers == {"c1", "c2"}

(***************************************************************************)
(* u32 values.  A u32 is kept as two 16-bit limbs, n = hi * 2^16 + lo, so  *)
(* that the whole range 0 .. 2^32 - 1 is expressible.                      *)
(***************************************************************************)
Limb == 2 ^ 16

U32(hi, lo) == [hi |-> hi, lo |-> lo]

None == [some |-> FALSE]

Some(v) == [some |-> TRUE, v |-> v]

\* n \div 10 and n % 10 by long division over the limbs
DivTen(n) == U32(n.hi \div 10, (((n.hi % 10) * Limb) + n.lo) \div 10)

ModTen(n) == (((n.hi % 10) * Limb) + n.lo) % 10

DigitChar(d) == <<"0", "1", "2", "3", "4", "5", "6", "7", "8", "9">>[d + 1]

RECURSIVE to_string_truncating(_)
\* a stringification that keeps only the low 16 bits of the number
to_string_truncating(n) ==
    IF n.lo < 10
    THEN <<DigitChar(n.lo)>>
    ELSE Append(to_string_truncating(U32(0, n.lo \div 10)), DigitChar(n.lo % 10))

RECURSIVE to_string(_)
\* u32::to_string: the decimal digits of n, most significant first, no sign,
\* no leading zero, no separator
to_string(n) ==
    IF n.hi = 0 /\ n.lo < 10
    THEN <<DigitChar(n.lo)>>
    ELSE Append(to_string(DivTen(n)), DigitChar(ModTen(n)))

(***************************************************************************)
(* The parameter mapping of a call: a function from the keys inserted to   *)
(* their string values.                                                    *)
(***************************************************************************)
EmptyParams == [k \in {} |-> <<>>]

Insert(params, key, value) ==
    [k \in (DOMAIN params) \cup {key} |-> IF k = key THEN value ELSE params[k]]

\* a parameter builder that sends an absent argument as an empty value
access_logs_params_empty_value(count, page) ==
    Insert(Insert(EmptyParams, "count", IF count.some THEN to_string(count.v) ELSE <<>>),
           "page", IF page.some THEN to_string(page.v) ELSE <<>>)

\* access_logs, lines 26-34: count and page are stringified, and each is
\* inserted under its own key only when it is present
access_logs_params(count, page) ==
    LET count_s == IF count.some THEN Some(to_string(count.v)) ELSE None
        page_s == IF page.some THEN Some(to_string(page.v)) ELSE None
        p0 == EmptyParams
        p1 == IF count_s.some THEN Insert(p0, "count", count_s.v) ELSE p0
        p2 == IF page_s.some THEN Insert(p1, "page", page_s.v) ELSE p1
    IN  p2

\* info, line 63: HashMap::new()
info_params == EmptyParams

(***************************************************************************)
(* JSON values.  A response body is either text that is not JSON or a JSON *)
(* value; a value carries its type tag, and an object is a function from   *)
(* the keys it has to their values, so that a missing key is a key outside *)
(* its domain.                                                             *)
(***************************************************************************)
NotJson == [t |-> "invalid"]

JStr(s) == [t |-> "string", s |-> s]

JBool(b) == [t |-> "boolean", b |-> b]

JNum(n) == [t |-> "number", n |-> n]

JArr(a) == [t |-> "array", a |-> a]

JObj(o) == [t |-> "object", o |-> o]

Has(j, k) == j.t = "object" /\ k \in DOMAIN j.o

\* the object without one of its keys
Without(j, k) == JObj([x \in (DOMAIN j.o) \ {k} |-> j.o[x]])

(***************************************************************************)
(* Decoders of the response structures.  A decoder gives DecOk(record) or  *)
(* DecErr; every field of the structures is required (none is an Option).  *)
(***************************************************************************)
DecOk(v) == [ok |-> TRUE, v |-> v]

DecErr == [ok |-> FALSE]

IsStr(j, k) == Has(j, k) /\ j.o[k].t = "string"

IsBool(j, k) == Has(j, k) /\ j.o[k].t = "boolean"

\* a u32 field takes a JSON number that is not negative (the numbers of the
\* model stay below 2^31, so the upper end of the range is never exceeded)
IsNum(j, k) == Has(j, k) /\ j.o[k].t = "number" /\ j.o[k].n >= 0

AsU32(n) == U32(n \div Limb, n % Limb)

LoginInfoStrings == {"user_id", "username", "ip", "user_agent", "isp", "country", "region"}

LoginInfoNumbers == {"date_first", "date_last", "count"}

\* #[derive(RustcDecodable)] struct LoginInfo
DecodeLoginInfo(j) ==
    IF /\ j.t = "object"
       /\ \A k \in LoginInfoStrings : IsStr(j, k)
       /\ \A k \in LoginInfoNumbers : IsNum(j, k)
    THEN DecOk([user_id |-> j.o.user_id.s, username |-> j.o.username.s,
                date_first |-> AsU32(j.o.date_first.n),
                date_last |-> AsU32(j.o.date_last.n), count |-> AsU32(j.o.count.n),
                ip |-> j.o.ip.s, user_agent |-> j.o.user_agent.s, isp |-> j.o.isp.s,
                country |-> j.o.country.s, region |-> j.o.region.s])
    ELSE DecErr

PaginationNumbers == {"count", "total", "page", "pages"}

\* super::Pagination: count, total, page and pages
DecodePagination(j) ==
    IF j.t = "object" /\ \A k \in PaginationNumbers : IsNum(j, k)
    THEN DecOk([count |-> j.o.count.n, total |-> j.o.total.n,
                page |-> j.o.page.n, pages |-> j.o.pages.n])
    ELSE DecErr

Reverse(s) == [i \in 1..Len(s) |-> s[Len(s) + 1 - i]]

\* a sequence decoder that pushes each entry at the front
DecodeLoginsReversed(j) ==
    IF j.t = "array" /\ \A i \in 1..Len(j.a) : DecodeLoginInfo(j.a[i]).ok
    THEN DecOk(Reverse([i \in 1..Len(j.a) |-> DecodeLoginInfo(j.a[i]).v]))
    ELSE DecErr

\* logins: Vec<LoginInfo>: the entries are decoded one by one, in order
DecodeLogins(j) ==
    IF j.t = "array" /\ \A i \in 1..Len(j.a) : DecodeLoginInfo(j.a[i]).ok
    THEN DecOk([i \in 1..Len(j.a) |-> DecodeLoginInfo(j.a[i]).v])
    ELSE DecErr

\* #[derive(RustcDecodable)] struct AccessLogsResponse
DecodeAccessLogsResponse(j) ==
    IF /\ Has(j, "logins") /\ DecodeLogins(j.o.logins).ok
       /\ Has(j, "paging") /\ DecodePagination(j.o.paging).ok
    THEN DecOk([logins |-> DecodeLogins(j.o.logins).v,
                paging |-> DecodePagination(j.o.paging).v])
    ELSE DecErr

IconInfoStrings ==
    {"image_34", "image_44", "image_68", "image_88", "image_102", "image_132"}

\* #[derive(RustcDecodable)] struct IconInfo
DecodeIconInfo(j) ==
    IF /\ j.t = "object"
       /\ \A k \in IconInfoStrings : IsStr(j, k)
       /\ IsBool(j, "image_default")
    THEN DecOk([image_34 |-> j.o.image_34.s, image_44 |-> j.o.image_44.s,
                image_68 |-> j.o.image_68.s, image_88 |-> j.o.image_88.s,
                image_102 |-> j.o.image_102.s, image_132 |-> j.o.image_132.s,
                image_default |-> j.o.image_default.b])
    ELSE DecErr

TeamInfoStrings == {"id", "name", "domain", "email_domain"}

\* a decoder that leaves a missing team id empty
DecodeTeamInfoDefaulting(j) ==
    IF /\ j.t = "object"
       /\ \A k \in TeamInfoStrings \ {"id"} : IsStr(j, k)
       /\ Has(j, "icon") /\ DecodeIconInfo(j.o.icon).ok
    THEN DecOk([id |-> IF IsStr(j, "id") THEN j.o.id.s ELSE "", name |-> j.o.name.s,
                domain |-> j.o.domain.s, email_domain |-> j.o.email_domain.s,
                icon |-> DecodeIconInfo(j.o.icon).v])
    ELSE DecErr

\* #[derive(RustcDecodable)] struct TeamInfo
DecodeTeamInfo(j) ==
    IF /\ j.t = "object"
       /\ \A k \in TeamInfoStrings : IsStr(j, k)
       /\ Has(j, "icon") /\ DecodeIconInfo(j.o.icon).ok
    THEN DecOk([id |-> j.o.id.s, name |-> j.o.name.s, domain |-> j.o.domain.s,
                email_domain |-> j.o.email_domain.s,
                icon |-> DecodeIconInfo(j.o.icon).v])
    ELSE DecErr

\* #[derive(RustcDecodable)] struct InfoResponse
DecodeInfoResponse(j) ==
    IF Has(j, "team") /\ DecodeTeamInfo(j.o.team).ok
    THEN DecOk([team |-> DecodeTeamInfo(j.o.team).v])
    ELSE DecErr

\* the decoder of the result type the endpoint function returns
Decode(method, j) ==
    IF method = "team.accessLogs" THEN DecodeAccessLogsResponse(j)
    ELSE DecodeInfoResponse(j)

(***************************************************************************)
(* Outcomes of a call: ApiResult<T>.                                       *)
(***************************************************************************)
NoOutcome == [kind |-> "none"]

TypedResult(v) == [kind |-> "result", value |-> v]

NoData == [kind |-> "result_no_data"]

ApiError(msg) == [kind |-> "api_error", err |-> msg]

DecodeError == [kind |-> "decode_error"]

TransportError(e) == [kind |-> "transport_error", err |-> e]

\* parse_slack_response(response, expect_data) for the result type of method:
\* the body is parsed as a JSON object, the ok field is inspected, and then the
\* err string is extracted or the payload is decoded.  An envelope without a
\* boolean ok, or a failure without a string err, does not match the envelope
\* shape and is a decode error.
parse_slack_response(method, body, expect_data) ==
    IF body.t # "object" THEN DecodeError
    ELSE IF ~IsBool(body, "ok") THEN DecodeError
    ELSE IF ~body.o.ok.b
         THEN IF IsStr(body, "err") THEN ApiError(body.o.err.s) ELSE DecodeError
    ELSE IF ~expect_data THEN NoData
    ELSE IF Decode(method, body).ok THEN TypedResult(Decode(method, body).v)
    ELSE DecodeError

(***************************************************************************)
(* The inputs of the model: the arguments the callers pass and the         *)
(* responses the transport gives.                                          *)
(***************************************************************************)
Tokens == {"TEST_TOKEN", "xoxp-other"}

Counts == {None, Some(U32(0, 0)), Some(U32(0, 100)), Some(U32(Limb - 1, Limb - 1))}

Pages == {None, Some(U32(Limb \div 2, 0))}

TransportFailures == {"timeout", "http_500"}

SendErr(e) == [t |-> "Err", e |-> e]

SendOk(body) == [t |-> "Ok", body |-> body]

Bob ==
    JObj([user_id |-> JStr("U12345"), username |-> JStr("bob"),
          date_first |-> JNum(1422922864), date_last |-> JNum(1422922864),
          count |-> JNum(1), ip |-> JStr("127.0.0.1"), user_agent |-> JStr("SlackWeb"),
          isp |-> JStr("BigCo ISP"), country |-> JStr("US"), region |-> JStr("CA")])

Alice ==
    JObj([user_id |-> JStr("U45678"), username |-> JStr("alice"),
          date_first |-> JNum(1422922493), date_last |-> JNum(1422922493),
          count |-> JNum(1), ip |-> JStr("127.0.0.1"), user_agent |-> JStr("SlackWeb"),
          isp |-> JStr("BigCo ISP"), country |-> JStr("US"), region |-> JStr("CA")])

Paging == JObj([count |-> JNum(100), total |-> JNum(2), page |-> JNum(1), pages |-> JNum(1)])

AccessLogsBody(logins) ==
    JObj([ok |-> JBool(TRUE), logins |-> JArr(logins), paging |-> Paging])

LoginLists == UNION {[1..n -> {Bob, Alice}] : n \in 0..MaxLogins}

Icon(image_default) ==
    JObj([image_34 |-> JStr("https://34"), image_44 |-> JStr("https://44"),
          image_68 |-> JStr("https://68"), image_88 |-> JStr("https://88"),
          image_102 |-> JStr("https://102"), image_132 |-> JStr("https://132"),
          image_default |-> image_default])

Team(image_default) ==
    JObj([id |-> JStr("T12345"), name |-> JStr("My Team"), domain |-> JStr("example"),
          email_domain |-> JStr(""), icon |-> Icon(image_default)])

InfoBody(team) == JObj([ok |-> JBool(TRUE), team |-> team])

ApiFailure(msg) == JObj([ok |-> JBool(FALSE), err |-> JStr(msg)])

Bodies ==
    {NotJson, JArr(<<>>),
     ApiFailure("some_error"), ApiFailure("invalid_auth"),
     JObj([ok |-> JBool(FALSE)]), JObj([err |-> JStr("some_error")]),
     InfoBody(Team(JBool(TRUE))), InfoBody(Team(JBool(FALSE))),
     InfoBody(Without(Team(JBool(TRUE)), "id")), InfoBody(Team(JStr("true"))),
     AccessLogsBody(<<Bob, Without(Alice, "username")>>),
     Without(AccessLogsBody(<<Bob, Alice>>), "paging")}
    \cup {AccessLogsBody(l) : l \in LoginLists}

Responses == {SendErr(e) : e \in TransportFailures} \cup {SendOk(b) : b \in Bodies}

(***************************************************************************)
(* The state: for each caller, where its call stands, the arguments it     *)
(* passed, the requests the call handed to the transport, the response of  *)
(* the transport, the invocations of the envelope decoder, and the value   *)
(* returned.                                                               *)
(***************************************************************************)
VARIABLES pc, args, sent, response, parsed, outcome

vars == <<pc, args, sent, response, parsed, outcome>>

NoArgs == [endpoint |-> "none"]

NoResponse == [t |-> "none"]

Init ==
    /\ pc = [c \in Callers |-> "idle"]
    /\ args = [c \in Callers |-> NoArgs]
    /\ sent = [c \in Callers |-> <<>>]
    /\ response = [c \in Callers |-> NoResponse]
    /\ parsed = [c \in Callers |-> <<>>]
    /\ outcome = [c \in Callers |-> NoOutcome]

\* access_logs, lines 25-35: what send_authed is called with
access_logs_request(token, count, page) ==
    [method |-> "team.accessLogs", token |-> token,
     params |-> access_logs_params(count, page)]

\* a request that passes the token as a parameter too
info_request_token_param(token) ==
    [method |-> "team.info", token |-> token,
     params |-> Insert(EmptyParams, "token", <<token>>)]

\* info, line 63: what send_authed is called with
info_request(token) ==
    [method |-> "team.info", token |-> token, params |-> info_params]

\* a continuation that decodes whatever came back, a failed send included
access_logs_result_no_try(resp) ==
    [parsed |-> <<[body |-> IF resp.t = "Err" THEN NotJson ELSE resp.body,
                   expect_data |-> TRUE]>>,
     outcome |-> parse_slack_response("team.accessLogs",
                     IF resp.t = "Err" THEN NotJson ELSE resp.body, TRUE)]

\* a continuation that reports every failure as the same error
access_logs_result_one_error(resp) ==
    IF resp.t = "Err"
    THEN [parsed |-> <<>>, outcome |-> DecodeError]
    ELSE [parsed |-> <<[body |-> resp.body, expect_data |-> TRUE]>>,
          outcome |-> IF parse_slack_response("team.accessLogs", resp.body, TRUE).kind
                           = "result"
                      THEN parse_slack_response("team.accessLogs", resp.body, TRUE)
                      ELSE DecodeError]

\* access_logs, lines 35-36: try! returns the error of a failed send at once;
\* otherwise the body goes to parse_slack_response(response, true)
access_logs_result(resp) ==
    IF resp.t = "Err"
    THEN [parsed |-> <<>>, outcome |-> TransportError(resp.e)]
    ELSE [parsed |-> <<[body |-> resp.body, expect_data |-> TRUE]>>,
          outcome |-> parse_slack_response("team.accessLogs", resp.body, TRUE)]

\* a continuation that reports every failure of the decoder as one fixed error
info_result_generic_error(resp) ==
    IF resp.t = "Err"
    THEN [parsed |-> <<>>, outcome |-> TransportError(resp.e)]
    ELSE [parsed |-> <<[body |-> resp.body, expect_data |-> TRUE]>>,
          outcome |-> IF parse_slack_response("team.info", resp.body, TRUE).kind
                           = "api_error"
                      THEN ApiError("request_failed")
                      ELSE parse_slack_response("team.info", resp.body, TRUE)]

\* info, lines 63-64: the same continuation for the team.info result type
info_result(resp) ==
    IF resp.t = "Err"
    THEN [parsed |-> <<>>, outcome |-> TransportError(resp.e)]
    ELSE [parsed |-> <<[body |-> resp.body, expect_data |-> TRUE]>>,
          outcome |-> parse_slack_response("team.info", resp.body, TRUE)]

\* an access_logs that builds its parameters in a mapping shared by all calls,
\* so that the keys it inserts show up in the requests already in flight
access_logs_send_shared(c) ==
    /\ pc[c] = "idle"
    /\ \E token \in Tokens, count \in Counts, page \in Pages :
          LET mine == access_logs_params(count, page)
              merged(p) == [k \in (DOMAIN p) \cup (DOMAIN mine) |->
                               IF k \in DOMAIN mine THEN mine[k] ELSE p[k]]
          IN  /\ args' = [args EXCEPT ![c] = [endpoint |-> "access_logs", token |-> token,
                                              count |-> count, page |-> page]]
              /\ sent' = [d \in Callers |->
                            IF d = c THEN Append(sent[d], access_logs_request(token, count, page))
                            ELSE IF sent[d] = <<>> THEN sent[d]
                            ELSE <<[sent[d][1] EXCEPT !.params = merged(@)]>>]
    /\ pc' = [pc EXCEPT ![c] = "sent"]
    /\ UNCHANGED <<response, parsed, outcome>>

\* access_logs is entered: the parameters are built and the request is sent
access_logs_send(c) ==
    /\ pc[c] = "idle"
    /\ \E token \in Tokens, count \in Counts, page \in Pages :
          /\ args' = [args EXCEPT ![c] = [endpoint |-> "access_logs", token |-> token,
                                          count |-> count, page |-> page]]
          /\ sent' = [sent EXCEPT ![c] = Append(@, access_logs_request(token, count, page))]
    /\ pc' = [pc EXCEPT ![c] = "sent"]
    /\ UNCHANGED <<response, parsed, outcome>>

\* info is entered: the request is sent
info_send(c) ==
    /\ pc[c] = "idle"
    /\ \E token \in Tokens :
          /\ args' = [args EXCEPT ![c] = [endpoint |-> "info", token |-> token]]
          /\ sent' = [sent EXCEPT ![c] = Append(@, info_request(token))]
    /\ pc' = [pc EXCEPT ![c] = "sent"]
    /\ UNCHANGED <<response, parsed, outcome>>

\* an access_logs that sends the request again when the first send failed
access_logs_return_retrying(c) ==
    /\ pc[c] = "sent"
    /\ args[c].endpoint = "access_logs"
    /\ \E first \in Responses, second \in Responses :
          LET resp == IF first.t = "Err" THEN second ELSE first
          IN  /\ response' = [response EXCEPT ![c] = resp]
              /\ sent' = [sent EXCEPT ![c] = IF first.t = "Err" THEN Append(@, @[1]) ELSE @]
              /\ parsed' = [parsed EXCEPT ![c] = @ \o access_logs_result(resp).parsed]
              /\ outcome' = [outcome EXCEPT ![c] = access_logs_result(resp).outcome]
    /\ pc' = [pc EXCEPT ![c] = "done"]
    /\ UNCHANGED args

\* send_authed comes back to access_logs, which returns
access_logs_return(c) ==
    /\ pc[c] = "sent"
    /\ args[c].endpoint = "access_logs"
    /\ \E resp \in Responses :
          /\ response' = [response EXCEPT ![c] = resp]
          /\ parsed' = [parsed EXCEPT ![c] = @ \o access_logs_result(resp).parsed]
          /\ outcome' = [outcome EXCEPT ![c] = access_logs_result(resp).outcome]
    /\ pc' = [pc EXCEPT ![c] = "done"]
    /\ UNCHANGED <<args, sent>>

\* send_authed comes back to info, which returns
info_return(c) ==
    /\ pc[c] = "sent"
    /\ args[c].endpoint = "info"
    /\ \E resp \in Responses :
          /\ response' = [response EXCEPT ![c] = resp]
          /\ parsed' = [parsed EXCEPT ![c] = @ \o info_result(resp).parsed]
          /\ outcome' = [outcome EXCEPT ![c] = info_result(resp).outcome]
    /\ pc' = [pc EXCEPT ![c] = "done"]
    /\ UNCHANGED <<args, sent>>

\* the caller drops the returned value and is free to call again
drop(c) ==
    /\ pc[c] = "done"
    /\ pc' = [pc EXCEPT ![c] = "idle"]
    /\ args' = [args EXCEPT ![c] = NoArgs]
    /\ sent' = [sent EXCEPT ![c] = <<>>]
    /\ response' = [response EXCEPT ![c] = NoResponse]
    /\ parsed' = [parsed EXCEPT ![c] = <<>>]
    /\ outcome' = [outcome EXCEPT ![c] = NoOutcome]

Next ==
    \E c \in Callers :
        \/ access_logs_send(c)
        \/ info_send(c)
        \/ access_logs_return(c)
        \/ info_return(c)
        \/ drop(c)

Spec == Init /\ [][Next]_vars

(***************************************************************************)
(* Properties.                                                             *)
(***************************************************************************)
Returned(c) == pc[c] = "done"

InFlight(c) == pc[c] \in {"sent", "done"}

GotBody(c) == Returned(c) /\ response[c].t = "Ok"

\* the body is exactly {"ok": false, "err": "<msg>"}
IsApiFailureBody(b) ==
    /\ b.t = "object"
    /\ DOMAIN b.o = {"ok", "err"}
    /\ b.o.ok = JBool(FALSE)
    /\ b.o.err.t = "string"

\* C1: a call of either endpoint that gets the body {"ok": false, "err": msg}
\* returns the API error that carries exactly msg, never a typed result, a
\* decode error or another message.
C1_ApiFailureGivesApiError ==
    \A c \in Callers :
        (GotBody(c) /\ IsApiFailureBody(response[c].body))
            => /\ outcome[c].kind = "api_error"
               /\ outcome[c].err = response[c].body.o.err.s

C1_Witness ==
    /\ Returned("c1") /\ args["c1"].endpoint = "access_logs"
    /\ response["c1"] = SendOk(ApiFailure("some_error"))
    /\ outcome["c1"] = ApiError("some_error")
    /\ Returned("c2") /\ args["c2"].endpoint = "info"
    /\ response["c2"] = SendOk(ApiFailure("invalid_auth"))
    /\ outcome["c2"] = ApiError("invalid_auth")

\* C2: the mapping access_logs sends has the key "count" exactly when count is
\* present, the key "page" exactly when page is present, no other key, and no
\* empty value; with both absent it is empty.
C2_ParamsFollowPresence ==
    \A c \in Callers :
        (InFlight(c) /\ args[c].endpoint = "access_logs")
            => LET p == sent[c][1].params
               IN  /\ ("count" \in DOMAIN p) <=> args[c].count.some
                   /\ ("page" \in DOMAIN p) <=> args[c].page.some
                   /\ DOMAIN p \subseteq {"count", "page"}
                   /\ \A k \in DOMAIN p : Len(p[k]) > 0
                   /\ (~args[c].count.some /\ ~args[c].page.some) => DOMAIN p = {}

C2_Witness ==
    /\ InFlight("c1") /\ args["c1"].endpoint = "access_logs"
    /\ ~args["c1"].count.some /\ ~args["c1"].page.some
    /\ DOMAIN sent["c1"][1].params = {}
    /\ InFlight("c2") /\ args["c2"].endpoint = "access_logs"
    /\ args["c2"].count.some /\ ~args["c2"].page.some
    /\ DOMAIN sent["c2"][1].params = {"count"}

LoginInfoFields == LoginInfoStrings \cup LoginInfoNumbers

\* every field of the result structure of the endpoint is there
FullyPopulated(endpoint, v) ==
    IF endpoint = "access_logs"
    THEN /\ DOMAIN v = {"logins", "paging"}
         /\ \A i \in 1..Len(v.logins) : DOMAIN v.logins[i] = LoginInfoFields
         /\ DOMAIN v.paging = PaginationNumbers
    ELSE /\ DOMAIN v = {"team"}
         /\ DOMAIN v.team = TeamInfoStrings \cup {"icon"}
         /\ DOMAIN v.team.icon = IconInfoStrings \cup {"image_default"}

\* C3: a returned call has exactly one of the four outcomes: a fully populated
\* typed result (only for a body whose ok is true), an API error (only for a
\* body whose ok is false), a decode error (only for a body), or a transport
\* error (exactly when the send failed); an error carries no result.
C3_ExactlyOneOutcome ==
    \A c \in Callers :
        /\ ~Returned(c) => outcome[c] = NoOutcome
        /\ Returned(c) =>
              /\ outcome[c].kind \in {"result", "decode_error", "api_error", "transport_error"}
              /\ (outcome[c].kind = "transport_error") <=> (response[c].t = "Err")
              /\ outcome[c].kind = "result" =>
                    /\ DOMAIN outcome[c] = {"kind", "value"}
                    /\ IsBool(response[c].body, "ok") /\ response[c].body.o.ok.b
                    /\ FullyPopulated(args[c].endpoint, outcome[c].value)
              /\ outcome[c].kind = "api_error" =>
                    /\ DOMAIN outcome[c] = {"kind", "err"}
                    /\ IsBool(response[c].body, "ok") /\ ~response[c].body.o.ok.b
              /\ outcome[c].kind = "decode_error" =>
                    /\ DOMAIN outcome[c] = {"kind"}
                    /\ ~IsApiFailureBody(response[c].body)
              /\ outcome[c].kind = "transport_error" => DOMAIN outcome[c] = {"kind", "err"}

C3_Witness ==
    /\ Returned("c1") /\ args["c1"].endpoint = "access_logs"
    /\ outcome["c1"].kind = "result"
    /\ Returned("c2") /\ args["c2"].endpoint = "info"
    /\ outcome["c2"].kind = "decode_error"

\* C4: when send_authed fails, the call returns that same transport error and
\* the envelope decoder is not invoked.
C4_TransportErrorPropagated ==
    \A c \in Callers :
        (Returned(c) /\ response[c].t = "Err")
            => /\ outcome[c] = TransportError(response[c].e)
               /\ parsed[c] = <<>>

C4_Witness ==
    /\ Returned("c1") /\ args["c1"].endpoint = "access_logs"
    /\ response["c1"] = SendErr("timeout") /\ outcome["c1"] = TransportError("timeout")
    /\ Returned("c2") /\ args["c2"].endpoint = "info"
    /\ response["c2"] = SendErr("http_500") /\ outcome["c2"] = TransportError("http_500")

\* C5: a call has sent exactly one request from the moment it is in flight until
\* it has returned, whatever its outcome; a caller that is not in a call has
\* sent nothing.
C5_ExactlyOneSend ==
    \A c \in Callers :
        /\ InFlight(c) => Len(sent[c]) = 1
        /\ ~InFlight(c) => Len(sent[c]) = 0

C5_Witness ==
    /\ Returned("c1") /\ args["c1"].endpoint = "access_logs"
    /\ outcome["c1"].kind = "transport_error" /\ Len(sent["c1"]) = 1
    /\ Returned("c2") /\ args["c2"].endpoint = "access_logs"
    /\ outcome["c2"].kind = "decode_error" /\ Len(sent["c2"]) = 1

RECURSIVE HasPath(_, _)
\* the JSON value has the nested field the path names
HasPath(j, path) ==
    \/ path = <<>>
    \/ /\ Has(j, Head(path))
       /\ HasPath(j.o[Head(path)], Tail(path))

InfoRequired ==
    {<<"team">>, <<"team", "icon">>}
    \cup {<<"team", k>> : k \in TeamInfoStrings}
    \cup {<<"team", "icon", k>> : k \in IconInfoStrings \cup {"image_default"}}

\* a field the result structure of the endpoint requires is not in the body
LacksRequired(endpoint, body) ==
    IF endpoint = "info"
    THEN \E path \in InfoRequired : ~HasPath(body, path)
    ELSE \/ ~Has(body, "logins")
         \/ ~Has(body, "paging")
         \/ \E k \in PaginationNumbers : ~Has(body.o.paging, k)
         \/ /\ body.o.logins.t = "array"
            /\ \E i \in 1..Len(body.o.logins.a), k \in LoginInfoFields :
                  ~Has(body.o.logins.a[i], k)

IsSuccessBody(b) == IsBool(b, "ok") /\ b.o.ok.b

\* C6: a success body that lacks a field the endpoint's result structure
\* requires makes the call return a decode error, never a record.
C6_MissingFieldIsDecodeError ==
    \A c \in Callers :
        (/\ GotBody(c)
         /\ IsSuccessBody(response[c].body)
         /\ LacksRequired(args[c].endpoint, response[c].body))
            => outcome[c] = DecodeError

C6_Witness ==
    /\ Returned("c1") /\ args["c1"].endpoint = "info"
    /\ response["c1"] = SendOk(InfoBody(Without(Team(JBool(TRUE)), "id")))
    /\ outcome["c1"] = DecodeError
    /\ Returned("c2") /\ args["c2"].endpoint = "access_logs"
    /\ response["c2"] = SendOk(AccessLogsBody(<<Bob, Without(Alice, "username")>>))
    /\ outcome["c2"] = DecodeError

U32Value(n) == (n.hi * Limb) + n.lo

\* the login record is the decoding of the JSON entry
SameLogin(r, j) ==
    /\ \A k \in LoginInfoStrings : r[k] = j.o[k].s
    /\ \A k \in LoginInfoNumbers : U32Value(r[k]) = j.o[k].n

\* C7: for a well-formed team.accessLogs success body, access_logs returns a
\* result whose logins have the length and the order of the body's logins
\* array, entry by entry, duplicates kept.
C7_LoginsKeepOrder ==
    \A c \in Callers :
        (/\ GotBody(c)
         /\ args[c].endpoint = "access_logs"
         /\ \E l \in LoginLists : response[c].body = AccessLogsBody(l))
            => /\ outcome[c].kind = "result"
               /\ LET a == response[c].body.o.logins.a
                      r == outcome[c].value.logins
                  IN  /\ Len(r) = Len(a)
                      /\ \A i \in 1..Len(a) : SameLogin(r[i], a[i])

C7_Witness ==
    /\ Returned("c1") /\ args["c1"].endpoint = "access_logs"
    /\ response["c1"] = SendOk(AccessLogsBody(<<Bob, Alice>>))
    /\ outcome["c1"].kind = "result"
    /\ outcome["c1"].value.logins[1].username = "bob"
    /\ outcome["c1"].value.logins[2].username = "alice"
    /\ Returned("c2") /\ args["c2"].endpoint = "access_logs"
    /\ response["c2"] = SendOk(AccessLogsBody(<<Bob, Bob>>))
    /\ outcome["c2"].kind = "result"
    /\ Len(outcome["c2"].value.logins) = 2

\* C8: info sends the method "team.info" with the caller's token and an empty
\* parameter mapping, and hands the body it gets to the decoder with the
\* expected-payload flag true.
C8_InfoRequest ==
    \A c \in Callers :
        (InFlight(c) /\ args[c].endpoint = "info")
            => /\ Len(sent[c]) = 1
               /\ sent[c][1].method = "team.info"
               /\ sent[c][1].token = args[c].token
               /\ DOMAIN sent[c][1].params = {}
               /\ GotBody(c) =>
                     /\ Len(parsed[c]) = 1
                     /\ parsed[c][1].body = response[c].body
                     /\ parsed[c][1].expect_data = TRUE

C8_Witness ==
    /\ Returned("c1") /\ args["c1"] = [endpoint |-> "info", token |-> "TEST_TOKEN"]
    /\ sent["c1"][1].token = "TEST_TOKEN"
    /\ response["c1"] = SendOk(InfoBody(Team(JBool(TRUE))))
    /\ outcome["c1"].kind = "result"
    /\ outcome["c1"].value.team.name = "My Team"
    /\ outcome["c1"].value.team.icon.image_default = TRUE
    /\ InFlight("c2") /\ args["c2"] = [endpoint |-> "info", token |-> "xoxp-other"]
    /\ sent["c2"][1].token = "xoxp-other"

DigitValue(ch) == CHOOSE d \in 0..9 : DigitChar(d) = ch

RECURSIVE ParseDecimal(_)
\* the u32 a decimal string denotes, as the receiving side parses it
ParseDecimal(digits) ==
    IF digits = <<>> THEN U32(0, 0)
    ELSE LET front == ParseDecimal(SubSeq(digits, 1, Len(digits) - 1))
             low == (front.lo * 10) + DigitValue(digits[Len(digits)])
         IN  U32((front.hi * 10) + (low \div Limb), low % Limb)

IsDecimal(digits) ==
    /\ Len(digits) > 0
    /\ \A i \in 1..Len(digits) : \E d \in 0..9 : digits[i] = DigitChar(d)
    /\ Len(digits) > 1 => digits[1] # "0"

\* the value sent under key is the decimal string of the argument
SentExactly(arg, params, key) ==
    arg.some =>
        /\ IsDecimal(params[key])
        /\ ParseDecimal(params[key]) = arg.v
        /\ arg.v = U32(0, 100) => params[key] = <<"1", "0", "0">>
        /\ arg.v = U32(Limb - 1, Limb - 1)
              => params[key] = <<"4", "2", "9", "4", "9", "6", "7", "2", "9", "5">>
        /\ arg.v = U32(Limb \div 2, 0)
              => params[key] = <<"2", "1", "4", "7", "4", "8", "3", "6", "4", "8">>

\* C9: what access_logs sends under "count" and "page" is the exact decimal
\* string of the number passed, which parses back to that number; for
\* count = Some(100) it is "100".
C9_StringifyRoundTrip ==
    \A c \in Callers :
        (InFlight(c) /\ args[c].endpoint = "access_logs")
            => /\ SentExactly(args[c].count, sent[c][1].params, "count")
               /\ SentExactly(args[c].page, sent[c][1].params, "page")

C9_Witness ==
    /\ InFlight("c1") /\ args["c1"].endpoint = "access_logs"
    /\ args["c1"].count = Some(U32(0, 100))
    /\ sent["c1"][1].params["count"] = <<"1", "0", "0">>
    /\ InFlight("c2") /\ args["c2"].endpoint = "access_logs"
    /\ args["c2"].count = Some(U32(Limb - 1, Limb - 1))
    /\ args["c2"].page = Some(U32(Limb \div 2, 0))
    /\ ParseDecimal(sent["c2"][1].params["count"]) = U32(Limb - 1, Limb - 1)

\* all that the model keeps of the call of one caller
CallOf(c) == <<pc[c], args[c], sent[c], response[c], parsed[c], outcome[c]>>

\* two calls with the same arguments send the same request, and with the same
\* response too they return the same value
SameInSameOut ==
    \A c, d \in Callers :
        /\ (InFlight(c) /\ InFlight(d) /\ args[c] = args[d]) => sent[c] = sent[d]
        /\ (Returned(c) /\ Returned(d) /\ args[c] = args[d] /\ response[c] = response[d])
              => (outcome[c] = outcome[d] /\ parsed[c] = parsed[d])

\* a step of one caller's call leaves the call of every other caller as it was
NoInterference ==
    \A c \in Callers : (pc'[c] = pc[c]) => (CallOf(c))' = CallOf(c)

\* C10: calls are independent: a step of one call never changes what another
\* call has sent, received or returned, and what a call sends and returns is
\* fixed by its own arguments and the transport's response to it.
C10_CallsIndependent == [][NoInterference]_vars /\ []SameInSameOut

C10_Witness ==
    /\ Returned("c1") /\ Returned("c2")
    /\ args["c1"] = args["c2"] /\ args["c1"].endpoint = "access_logs"
    /\ args["c1"].count.some
    /\ response["c1"] # response["c2"]
    /\ outcome["c1"].kind = "result" /\ outcome["c2"].kind = "api_error"

====
